---- MODULE Spec2Model ----
(***************************************************************************)
(* VoiceSafe AI: the asynchronous job pipeline.                            *)
(*                                                                         *)
(*   job_queue.py  rate limiter, JobStore, AudioStore and Queue over two   *)
(*                 backends: the shared Redis server and the module-level  *)
(*                 in-memory maps of the calling process.  Every function  *)
(*                 asks _get_redis() on each call and falls through to     *)
(*                 the in-memory maps when the client is absent or the     *)
(*                 Redis command raises.                                   *)
(*   worker.py     main(): the polling loop of one worker process.         *)
(*                                                                         *)
(* worker.py imports its store functions from a module named queue, with   *)
(* a bytes interface (it encodes the record it stores and decodes the one  *)
(* it reads).  job_queue.py is the module of the sources that defines      *)
(* them: get_job, set_job, get_audio, and dequeue for dequeue_block.  The   *)
(* admission layer and del_audio are in no source file; they are modelled  *)
(* from the specification (Admit, Query, del_audio).                       *)
(*                                                                         *)
(* The specifications share the variables:                                  *)
(*   Spec    the job pipeline (admission and workers)                      *)
(*   SpecQ   the job pipeline with status queries                          *)
(*   SpecRL  rate_limit_allow called over a clock                          *)
(*   SpecTTL   the job pipeline over a clock                               *)
(*   SpecDS    deterministic_scores of app.py on the hashes of two files   *)
(*   SpecAA    the scoring tail of analyze_audio of worker.py              *)
(*   SpecSolo  one worker that is never killed, under weak fairness        *)
(*   SpecLive  concurrent workers, never killed, under weak fairness       *)
(***************************************************************************)
EXTENDS Integers, Sequences, FiniteSets, TLC

\* ------------------------------------------------------------------------
\* Bounds
\* ------------------------------------------------------------------------
MaxJobs    == 2      \* job ids admitted in one run
NumWorkers == 2      \* worker processes
MaxFaults  == 1      \* calls in one run on which the Redis backend fails
MaxCrashes == 1      \* workers that die in one run
MaxTime    == 4      \* last clock value of SpecRL
MaxLimit   == 2      \* largest rate limit drawn
MaxWindow  == 2      \* largest window length drawn
MaxCalls   == 4      \* rate_limit_allow calls in one run of SpecRL
JobTTL     == 2      \* the job TTL of the specification, in clock values
Spread     == 6      \* SpecAA: hundredths drawn on each side of a threshold

Jobs    == 1..MaxJobs
Workers == 1..NumWorkers
Api     == NumWorkers + 1         \* the admission process
Procs   == {Api} \cup Workers     \* every process has its own _mem_* maps

VARIABLES
    REDIS_URL,    \* job_queue.py:15  TRUE iff the environment sets REDIS_URL
    faults,       \* number of calls so far on which Redis failed
    nextId,       \* next job id new_job_id() hands out
    r_jobs,       \* Redis hash JOBS_KEY:  job id -> serialized record
    r_audio,      \* Redis hash AUDIO_KEY: job id -> serialized payload
    r_queue,      \* Redis list QUEUE_KEY
    mem_jobs,     \* _mem_jobs  of each process
    mem_audio,    \* _mem_audio of each process
    mem_queue,    \* _mem_queue of each process
    pc,           \* position of each worker in main()
    wjob,         \* job_id local of each worker (0: None, also between jobs)
    wloc,         \* result / e local of each worker
    deqLog,       \* history: ids returned by dequeue, in order
    opLog,        \* history: per job id, what the worker did for it, in order
    used,         \* history: backends any store operation has acted on
    seen,         \* history: per job id, last terminal status a query returned
    now,          \* SpecRL: time.time()
    rl_limit,     \* SpecRL: limit argument
    rl_window,    \* SpecRL: window_s argument
    r_rl,         \* SpecRL: Redis rate buckets of the key, window index ->
                  \*   <<counter, expiry time>> (counter 0: no such key;
                  \*   expiry -1: no TTL)
    mem_rate,     \* SpecRL: _mem_rate[key], the admitted timestamps
    rl_calls,     \* SpecRL history: calls made in the current window index
    rl_last,      \* SpecRL history: result of the latest call
    rl_total,     \* SpecRL history: calls made in this run
    rl_hist,      \* SpecRL history: <<time, result>> of every call, in order
    ds_hash,      \* SpecDS: file_hash_hex[:32] of two files, as digit values
    ds_scores,    \* SpecDS: what deterministic_scores returned for each file
    aa_in,        \* SpecAA: the values of worker.py:164-173 for one sample
    aa_result,    \* SpecAA: the dict analyze_audio returned for it
    written       \* history: per job id, the clock value of the latest
                  \*   set_job for it (-1: never written)

pipeVars == <<REDIS_URL, faults, nextId, r_jobs, r_audio, r_queue, mem_jobs,
              mem_audio, mem_queue, pc, wjob, wloc, deqLog, opLog, used,
              seen>>
rlVars   == <<now, rl_limit, rl_window, r_rl, mem_rate, rl_calls, rl_last,
              rl_total, rl_hist>>
fnVars   == <<ds_hash, ds_scores, aa_in, aa_result>>
vars     == <<pipeVars, rlVars, fnVars, written>>

\* ------------------------------------------------------------------------
\* Values
\* ------------------------------------------------------------------------
\* Python None, as a record so that it compares with stored records
None == [none |-> TRUE]

\* job_queue.py:116-120  the text Redis stores, and its parse
_json_dumps(obj) == [json |-> obj]
_json_loads(s)   == s.json

\* dict.update(patch)
Update(obj, patch) ==
    [k \in (DOMAIN obj) \cup (DOMAIN patch) |->
        IF k \in DOMAIN patch THEN patch[k] ELSE obj[k]]

\* worker.py:212, 219  the bytes the worker hands to set_job, and their parse
Encode(obj) == [utf8 |-> obj]
Decode(raw) == raw.utf8

Stamp == "ts"                            \* int(time.time())
AResult == [summary |-> "low", scam_score |-> 10]   \* analyze_audio's dict
Errors == {"too_short_audio"}            \* str(e)[:200] of a decode failure

\* app.py:72  bytes.fromhex(file_hash_hex[:32]): 16 bytes
HashLen == 16
ZeroHash == [i \in 1..(2 * HashLen) |-> 0]     \* its 32 hexadecimal digits

\* ------------------------------------------------------------------------
\* Backend choice of one call
\* ------------------------------------------------------------------------
\* job_queue.py:43-71.  A call is served by "redis" when REDIS_URL is set,
\* the client connects (or is cached) and the command succeeds; it is served
\* by "mem" when REDIS_URL is unset (line 49), when the connection or ping
\* fails (lines 67-71), or when the command raises (the callers' except
\* branches).  The cached client _redis selects nothing else and is not kept.
_get_redis(rt) == REDIS_URL /\ rt = "redis"

Backends == {"redis", "mem"}

\* number of Redis failures in a tuple of backend choices
RECURSIVE Failures(_)
Failures(rts) ==
    IF rts = <<>> THEN 0
    ELSE (IF REDIS_URL /\ Head(rts) = "mem" THEN 1 ELSE 0) + Failures(Tail(rts))

\* the choices the environment allows: no Redis without REDIS_URL, and at
\* most MaxFaults failures in a run
Allowed(rts) ==
    /\ \A i \in 1..Len(rts) : (~REDIS_URL) => rts[i] = "mem"
    /\ faults + Failures(rts) <= MaxFaults

Note(rts) ==
    /\ faults' = faults + Failures(rts)
    /\ used' = used \cup {rts[i] : i \in 1..Len(rts)}

\* ------------------------------------------------------------------------
\* job_queue.py: stores and queue
\* ------------------------------------------------------------------------
\* job_queue.py:122-134
set_job(p, job_id, data, rt) ==
    IF _get_redis(rt)
    THEN /\ r_jobs' = [r_jobs EXCEPT ![job_id] = _json_dumps(data)]
         /\ mem_jobs' = mem_jobs
    ELSE /\ mem_jobs' = [mem_jobs EXCEPT ![p][job_id] = data]
         /\ r_jobs' = r_jobs

\* job_queue.py:137-151
get_job(p, job_id, rt) ==
    IF _get_redis(rt)
    THEN IF r_jobs[job_id] = None THEN None ELSE _json_loads(r_jobs[job_id])
    ELSE mem_jobs[p][job_id]

\* job_queue.py:154-171
set_audio(p, job_id, audio_path, rt) ==
    LET payload == [path |-> audio_path] IN
    IF _get_redis(rt)
    THEN /\ r_audio' = [r_audio EXCEPT ![job_id] = _json_dumps(payload)]
         /\ mem_audio' = mem_audio
    ELSE /\ mem_audio' = [mem_audio EXCEPT ![p][job_id] = payload]
         /\ r_audio' = r_audio

\* job_queue.py:174-188
get_audio(p, job_id, rt) ==
    IF _get_redis(rt)
    THEN IF r_audio[job_id] = None THEN None ELSE _json_loads(r_audio[job_id])
    ELSE mem_audio[p][job_id]

\* del_audio is imported by worker.py:18 and defined in no source file.
\* Modelled as the store contract's delete(key), best-effort and
\* non-failing, with the shape every job_queue.py function has.
del_audio(p, job_id, rt) ==
    IF _get_redis(rt)
    THEN /\ r_audio' = [r_audio EXCEPT ![job_id] = None]
         /\ mem_audio' = mem_audio
    ELSE /\ mem_audio' = [mem_audio EXCEPT ![p][job_id] = None]
         /\ r_audio' = r_audio

\* job_queue.py:195-207
enqueue(p, job_id, rt) ==
    IF _get_redis(rt)
    THEN /\ r_queue' = Append(r_queue, job_id)
         /\ mem_queue' = mem_queue
    ELSE /\ mem_queue' = [mem_queue EXCEPT ![p] = Append(@, job_id)]
         /\ r_queue' = r_queue

\* a plausible bug: the head is read (LINDEX, q[0]) and left in the list
dequeue_peek(p, rt, ret) ==
    /\ ret = IF _get_redis(rt)
             THEN (IF r_queue = <<>> THEN 0 ELSE Head(r_queue))
             ELSE (IF mem_queue[p] = <<>> THEN 0 ELSE Head(mem_queue[p]))
    /\ UNCHANGED <<r_queue, mem_queue>>

\* a plausible bug: the popped id is pushed back at the tail (RPOPLPUSH
\* without an acknowledgement)
dequeue_rotate(p, rt, ret) ==
    /\ ret = IF _get_redis(rt)
             THEN (IF r_queue = <<>> THEN 0 ELSE Head(r_queue))
             ELSE (IF mem_queue[p] = <<>> THEN 0 ELSE Head(mem_queue[p]))
    /\ r_queue' = IF _get_redis(rt) /\ r_queue # <<>>
                  THEN Append(Tail(r_queue), Head(r_queue)) ELSE r_queue
    /\ mem_queue' = mem_queue

\* job_queue.py:210-231  (worker.py:232 calls it as dequeue_block).
\* ret is the value returned: a job id, or 0 for None.  BLPOP on an empty
\* list returns None at its timeout and does not reach the memory list.
dequeue(p, rt, ret) ==
    IF _get_redis(rt)
    THEN /\ ret = (IF r_queue = <<>> THEN 0 ELSE Head(r_queue))
         /\ r_queue' = (IF r_queue = <<>> THEN r_queue ELSE Tail(r_queue))
         /\ mem_queue' = mem_queue
    ELSE /\ ret = (IF mem_queue[p] = <<>> THEN 0 ELSE Head(mem_queue[p]))
         /\ mem_queue' = [mem_queue EXCEPT ![p] =
                            IF @ = <<>> THEN @ ELSE Tail(@)]
         /\ r_queue' = r_queue

\* ------------------------------------------------------------------------
\* worker.py
\* ------------------------------------------------------------------------
\* worker.py:208-219  get_job, decode, update, set_job.  Every stored value
\* was written through Encode, so the parse of line 212 succeeds and the
\* except branch of lines 213-214 is not taken.
_job_update(p, job_id, patch, rg, rs) ==
    LET raw == get_job(p, job_id, rg)
        obj == IF raw # None THEN Decode(raw) ELSE [id |-> job_id]
    IN  set_job(p, job_id, Encode(Update(obj, patch)), rs)

\* the status field of a stored value, "none" for a missing record
StatusOf(raw) ==
    IF raw = None THEN "none"
    ELSE IF "status" \in DOMAIN Decode(raw) THEN Decode(raw).status
    ELSE "none"

Log(job_id, ev) == opLog' = [opLog EXCEPT ![job_id] = Append(@, ev)]

\* the history of the set_job calls: job_id was written at the clock value now
Touch(job_id) == written' = [written EXCEPT ![job_id] = now]

\* worker.py:231-234  pop the next id; None keeps polling
Poll(w) ==
    /\ pc[w] = "poll"
    /\ \E rt \in Backends, ret \in 0..MaxJobs :
        /\ Allowed(<<rt>>)
        /\ dequeue(w, rt, ret)
        /\ Note(<<rt>>)
        /\ IF ret = 0
           THEN UNCHANGED <<pc, wjob, deqLog>>
           ELSE /\ pc' = [pc EXCEPT ![w] = "mark"]
                /\ wjob' = [wjob EXCEPT ![w] = ret]
                /\ deqLog' = Append(deqLog, ret)
    /\ UNCHANGED <<REDIS_URL, nextId, r_jobs, r_audio, mem_jobs, mem_audio,
                   wloc, opLog, seen, rlVars, fnVars,
                   written>>

\* worker.py:236-237
MarkProcessing(w) ==
    /\ pc[w] = "mark"
    /\ \E rg \in Backends, rs \in Backends :
        /\ Allowed(<<rg, rs>>)
        /\ _job_update(w, wjob[w],
                       [status |-> "processing", started_at |-> Stamp], rg, rs)
        /\ Note(<<rg, rs>>)
    /\ Log(wjob[w], "processing")
    /\ Touch(wjob[w])
    /\ pc' = [pc EXCEPT ![w] = "fetch"]
    /\ UNCHANGED <<REDIS_URL, nextId, r_audio, r_queue, mem_audio, mem_queue,
                   wjob, wloc, deqLog, seen, rlVars,
                   fnVars>>

\* a plausible bug: the missing blob is retried, the id pushed back
AudioMissingRetry(w, rt) ==
    /\ Allowed(<<rt, "redis">>)
    /\ enqueue(w, wjob[w], "redis")
    /\ Note(<<rt, "redis">>)
    /\ pc' = [pc EXCEPT ![w] = "poll"]
    /\ wjob' = [wjob EXCEPT ![w] = 0]
    /\ UNCHANGED <<wloc, r_jobs, mem_jobs>>

\* worker.py:240-242  the blob read through rt is missing: fail the job and
\* continue; the finally of line 279 is not entered
AudioMissing(w, rt) ==
    /\ \E rg \in Backends, rs \in Backends :
        /\ Allowed(<<rt, rg, rs>>)
        /\ _job_update(w, wjob[w],
                       [status |-> "failed",
                        error |-> "audio_missing_or_expired"], rg, rs)
        /\ Note(<<rt, rg, rs>>)
    /\ pc' = [pc EXCEPT ![w] = "poll"]
    /\ wjob' = [wjob EXCEPT ![w] = 0]
    /\ UNCHANGED <<wloc, r_queue, mem_queue>>

\* a plausible bug: the audit write is not wrapped in its own try, so that
\* its exception reaches the except of line 277
AudioFoundAuditFatal(w, rt) ==
    /\ Allowed(<<rt>>)
    /\ Note(<<rt>>)
    /\ \E out \in Errors \cup {"audit_ok", "audit_raised"} :
        IF out \in Errors
        THEN /\ wloc' = [wloc EXCEPT ![w] = [error |-> out]]
             /\ pc' = [pc EXCEPT ![w] = "except"]
        ELSE IF out = "audit_raised"
        THEN /\ wloc' = [wloc EXCEPT ![w] = [result |-> AResult, audit |-> out,
                                              error |-> "db_error"]]
             /\ pc' = [pc EXCEPT ![w] = "except"]
        ELSE /\ wloc' = [wloc EXCEPT ![w] = [result |-> AResult, audit |-> out]]
             /\ pc' = [pc EXCEPT ![w] = "done"]
    /\ UNCHANGED <<wjob, r_jobs, mem_jobs, r_queue, mem_queue>>

\* worker.py:244-268  the blob was found: write the file and analyze; on
\* success attempt the audit row, whose failure is swallowed (lines
\* 267-268).  The get_job reads of lines 257-258 only fill the row.
AudioFound(w, rt) ==
    /\ Allowed(<<rt>>)
    /\ Note(<<rt>>)
    /\ \E out \in Errors \cup {"audit_ok", "audit_raised"} :
        IF out \in Errors
        THEN /\ wloc' = [wloc EXCEPT ![w] = [error |-> out]]
             /\ pc' = [pc EXCEPT ![w] = "except"]
        ELSE /\ wloc' = [wloc EXCEPT ![w] = [result |-> AResult, audit |-> out]]
             /\ pc' = [pc EXCEPT ![w] = "done"]
    /\ UNCHANGED <<wjob, r_jobs, mem_jobs, r_queue, mem_queue>>

\* worker.py:239-268.  The history records what the read found: "missing",
\* or "audit" when the analysis succeeded and the audit row was attempted.
Fetch(w) ==
    /\ pc[w] = "fetch"
    /\ \E rt \in Backends :
        IF get_audio(w, wjob[w], rt) = None
        THEN AudioMissing(w, rt) /\ Log(wjob[w], "missing") /\ Touch(wjob[w])
        ELSE /\ AudioFound(w, rt)
             /\ IF pc'[w] = "done" THEN Log(wjob[w], "audit")
                ELSE UNCHANGED opLog
             /\ UNCHANGED written
    /\ UNCHANGED <<REDIS_URL, nextId, r_audio, mem_audio, deqLog, seen, rlVars,
                   fnVars>>

\* a plausible bug: the result goes to the audit row only and the record
\* is not updated
WriteDoneSkipped(w) ==
    /\ pc[w] = "done"
    /\ pc' = [pc EXCEPT ![w] = "finally"]
    /\ UNCHANGED <<REDIS_URL, faults, nextId, r_jobs, r_audio, r_queue,
                   mem_jobs, mem_audio, mem_queue, wjob, wloc, deqLog, opLog,
                   used, seen, rlVars, fnVars, written>>

\* worker.py:270-275
WriteDone(w) ==
    /\ pc[w] = "done"
    /\ \E rg \in Backends, rs \in Backends :
        /\ Allowed(<<rg, rs>>)
        /\ _job_update(w, wjob[w],
                       [status |-> "done", finished_at |-> Stamp,
                        result |-> wloc[w].result, ms |-> Stamp], rg, rs)
        /\ Note(<<rg, rs>>)
    /\ Log(wjob[w], "done")
    /\ Touch(wjob[w])
    /\ pc' = [pc EXCEPT ![w] = "finally"]
    /\ UNCHANGED <<REDIS_URL, nextId, r_audio, r_queue, mem_audio, mem_queue,
                   wjob, wloc, deqLog, seen, rlVars,
                   fnVars>>

\* a plausible bug: the handler stores what the analysis had produced so
\* far next to the error
WriteFailedPartial(w) ==
    /\ pc[w] = "except"
    /\ \E rg \in Backends, rs \in Backends :
        /\ Allowed(<<rg, rs>>)
        /\ _job_update(w, wjob[w],
                       [status |-> "failed", error |-> wloc[w].error,
                        result |-> [summary |-> "partial"]], rg, rs)
        /\ Note(<<rg, rs>>)
    /\ Log(wjob[w], "failed")
    /\ Touch(wjob[w])
    /\ pc' = [pc EXCEPT ![w] = "finally"]
    /\ UNCHANGED <<REDIS_URL, nextId, r_audio, r_queue, mem_audio, mem_queue,
                   wjob, wloc, deqLog, seen, rlVars,
                   fnVars>>

\* a plausible bug: the handler records the failure and re-raises, which
\* ends main()
WriteFailedReraise(w) ==
    /\ pc[w] = "except"
    /\ \E rg \in Backends, rs \in Backends :
        /\ Allowed(<<rg, rs>>)
        /\ _job_update(w, wjob[w],
                       [status |-> "failed", error |-> wloc[w].error], rg, rs)
        /\ Note(<<rg, rs>>)
    /\ Log(wjob[w], "failed")
    /\ Touch(wjob[w])
    /\ pc' = [pc EXCEPT ![w] = "exited"]
    /\ UNCHANGED <<REDIS_URL, nextId, r_audio, r_queue, mem_audio, mem_queue,
                   wjob, wloc, deqLog, seen, rlVars,
                   fnVars>>

\* worker.py:277-278
WriteFailed(w) ==
    /\ pc[w] = "except"
    /\ \E rg \in Backends, rs \in Backends :
        /\ Allowed(<<rg, rs>>)
        /\ _job_update(w, wjob[w],
                       [status |-> "failed", error |-> wloc[w].error], rg, rs)
        /\ Note(<<rg, rs>>)
    /\ Log(wjob[w], "failed")
    /\ Touch(wjob[w])
    /\ pc' = [pc EXCEPT ![w] = "finally"]
    /\ UNCHANGED <<REDIS_URL, nextId, r_audio, r_queue, mem_audio, mem_queue,
                   wjob, wloc, deqLog, seen, rlVars,
                   fnVars>>

\* a plausible bug: the cleanup deletes under another key than the job id
CleanupWrongKey(w, rt) == UNCHANGED <<r_audio, mem_audio>>

\* worker.py:281
Cleanup(w, rt) == del_audio(w, wjob[w], rt)

\* a plausible bug: the cleanup sits at the end of the try block, so that
\* it is skipped when the except branch ran
FinallyInTry(w) ==
    /\ pc[w] = "finally"
    /\ IF wloc[w] # None /\ "result" \in DOMAIN wloc[w]
       THEN \E rt \in Backends :
               /\ Allowed(<<rt>>)
               /\ Cleanup(w, rt)
               /\ Note(<<rt>>)
               /\ Log(wjob[w], IF _get_redis(rt) THEN "del_redis" ELSE "del_mem")
       ELSE /\ Log(wjob[w], "end")
            /\ UNCHANGED <<faults, used, r_audio, mem_audio>>
    /\ pc' = [pc EXCEPT ![w] = "poll"]
    /\ wloc' = [wloc EXCEPT ![w] = None]
    /\ wjob' = [wjob EXCEPT ![w] = 0]
    /\ UNCHANGED <<REDIS_URL, nextId, r_jobs, r_queue, mem_jobs, mem_queue,
                   deqLog, seen, rlVars, fnVars,
                   written>>

\* worker.py:279-282
Finally(w) ==
    /\ pc[w] = "finally"
    /\ \E rt \in Backends :
        /\ Allowed(<<rt>>)
        /\ Cleanup(w, rt)
        /\ Note(<<rt>>)
        /\ Log(wjob[w], IF _get_redis(rt) THEN "del_redis" ELSE "del_mem")
    /\ pc' = [pc EXCEPT ![w] = "poll"]
    /\ wloc' = [wloc EXCEPT ![w] = None]
    /\ wjob' = [wjob EXCEPT ![w] = 0]
    /\ UNCHANGED <<REDIS_URL, nextId, r_jobs, r_queue, mem_jobs, mem_queue,
                   deqLog, seen, rlVars, fnVars,
                   written>>

\* the worker process dies (killed, out of memory) while it holds a popped
\* id.  A worker that dies while polling is a worker that never polls again,
\* which every behaviour already allows.
Crash(w) ==
    /\ pc[w] \notin {"poll", "crashed"}
    /\ Cardinality({v \in Workers : pc[v] = "crashed"}) < MaxCrashes
    /\ pc' = [pc EXCEPT ![w] = "crashed"]
    /\ wloc' = [wloc EXCEPT ![w] = None]
    /\ UNCHANGED <<REDIS_URL, faults, nextId, r_jobs, r_audio, r_queue,
                   mem_jobs, mem_audio, mem_queue, wjob, deqLog, opLog,
                   used, seen, rlVars, fnVars,
                   written>>

\* ------------------------------------------------------------------------
\* Admission layer (not in the sources): store blob, store record, enqueue
\* ------------------------------------------------------------------------
QueuedRecord(job_id) ==
    [id |-> job_id, status |-> "queued", created_at |-> Stamp,
     ip |-> "ip", filename |-> "f.wav", bytes |-> 1]

Admit ==
    /\ nextId <= MaxJobs
    /\ \E ra \in Backends, rj \in Backends, rq \in Backends :
        /\ Allowed(<<ra, rj, rq>>)
        /\ set_audio(Api, nextId, "path", ra)
        /\ set_job(Api, nextId, Encode(QueuedRecord(nextId)), rj)
        /\ enqueue(Api, nextId, rq)
        /\ Note(<<ra, rj, rq>>)
    /\ nextId' = nextId + 1
    /\ Touch(nextId)
    /\ UNCHANGED <<REDIS_URL, pc, wjob, wloc, deqLog, opLog, seen, rlVars,
                   fnVars>>

\* a status query: get_job called by the admission process
Query(job_id) ==
    /\ job_id < nextId
    /\ \E rt \in Backends :
        /\ Allowed(<<rt>>)
        /\ Note(<<rt>>)
        /\ LET st == StatusOf(get_job(Api, job_id, rt)) IN
           seen' = IF st \in {"done", "failed"}
                   THEN [seen EXCEPT ![job_id] = st] ELSE seen
    /\ UNCHANGED <<REDIS_URL, nextId, r_jobs, r_audio, r_queue, mem_jobs,
                   mem_audio, mem_queue, pc, wjob, wloc, deqLog, opLog,
                   rlVars, fnVars,
                   written>>

\* ------------------------------------------------------------------------
\* The pipeline
\* ------------------------------------------------------------------------
\* no file has been analyzed by app.py
InitDSIdle ==
    /\ ds_hash = <<ZeroHash, ZeroHash>>
    /\ ds_scores = <<None, None>>

\* no sample has been scored by analyze_audio
InitAAIdle ==
    /\ aa_in = None
    /\ aa_result = None

InitRLIdle ==
    /\ now = 0 /\ rl_limit = 1 /\ rl_window = 1
    /\ r_rl = [i \in 0..MaxTime |-> <<0, -1>>] /\ mem_rate = <<>>
    /\ rl_calls = 0 /\ rl_last = "none" /\ rl_total = 0 /\ rl_hist = <<>>

Init ==
    /\ REDIS_URL \in BOOLEAN
    /\ faults = 0
    /\ nextId = 1
    /\ r_jobs = [j \in Jobs |-> None]
    /\ r_audio = [j \in Jobs |-> None]
    /\ r_queue = <<>>
    /\ mem_jobs = [p \in Procs |-> [j \in Jobs |-> None]]
    /\ mem_audio = [p \in Procs |-> [j \in Jobs |-> None]]
    /\ mem_queue = [p \in Procs |-> <<>>]
    /\ pc = [w \in Workers |-> "poll"]
    /\ wjob = [w \in Workers |-> 0]
    /\ wloc = [w \in Workers |-> None]
    /\ deqLog = <<>>
    /\ opLog = [j \in Jobs |-> <<>>]
    /\ used = {}
    /\ seen = [j \in Jobs |-> "none"]
    /\ written = [j \in Jobs |-> -1]
    /\ InitRLIdle
    /\ InitDSIdle
    /\ InitAAIdle

Next ==
    \/ Admit
    \/ \E w \in Workers : Poll(w)
    \/ \E w \in Workers : MarkProcessing(w)
    \/ \E w \in Workers : Fetch(w)
    \/ \E w \in Workers : WriteDone(w)
    \/ \E w \in Workers : WriteFailed(w)
    \/ \E w \in Workers : Finally(w)
    \/ \E w \in Workers : Crash(w)

Spec == Init /\ [][Next]_vars

\* the pipeline with status queries
NextQ ==
    \/ Next
    \/ \E j \in Jobs : Query(j)

SpecQ == Init /\ [][NextQ]_vars

\* time passes in the pipeline.  set_job stores with a plain HSET or a
\* dict assignment (job_queue.py:129, 134): no record carries an expiry,
\* and nothing in the sources removes a record, so the stores stay as
\* they are.
Elapse ==
    /\ now < MaxTime
    /\ now' = now + 1
    /\ UNCHANGED <<pipeVars, rl_limit, rl_window, r_rl, mem_rate, rl_calls,
                   rl_last, rl_total, rl_hist, fnVars, written>>

\* the pipeline over a clock
NextTTL ==
    \/ Next
    \/ Elapse

SpecTTL == Init /\ [][NextTTL]_vars

\* worker.py:231-282  one iteration step of the loop of worker w
Run(w) ==
    \/ Poll(w)
    \/ MarkProcessing(w)
    \/ Fetch(w)
    \/ WriteDone(w)
    \/ WriteFailed(w)
    \/ Finally(w)

\* one worker process that is not killed, running against the admission
\* layer.  A running process takes its next step: weak fairness of Run.
NextSolo ==
    \/ Admit
    \/ Run(1)

SpecSolo == Init /\ [][NextSolo]_vars /\ WF_vars(Run(1))

\* worker processes running concurrently, none killed.  Two loops give
\* the interleavings of one worker's steps with another's; workers beyond
\* the second stay idle, which keeps the state graph of SpecLive small
\* enough for temporal properties when there are more.
LiveWorkers == {w \in Workers : w <= 2}

NextLive ==
    \/ Admit
    \/ \E w \in LiveWorkers : Run(w)

SpecLive ==
    Init /\ [][NextLive]_vars /\ \A w \in LiveWorkers : WF_vars(Run(w))

\* ------------------------------------------------------------------------
\* job_queue.py: rate limiter, one client key, over a clock
\* ------------------------------------------------------------------------
\* job_queue.py:89  int(time.time() // window_s)
WindowIndex(t, window_s) == t \div window_s

\* job_queue.py:103  [t for t in arr if now - t < window_s]
RECURSIVE InWindow(_, _, _)
InWindow(arr, t_now, window_s) ==
    IF arr = <<>> THEN <<>>
    ELSE IF t_now - Head(arr) < window_s
         THEN <<Head(arr)>> \o InWindow(Tail(arr), t_now, window_s)
         ELSE InWindow(Tail(arr), t_now, window_s)

\* job_queue.py:100-109  the memory branch; ret is the value returned
rate_limit_mem(limit, window_s, ret) ==
    LET arr == InWindow(mem_rate, now, window_s) IN
    IF Len(arr) >= limit
    THEN /\ mem_rate' = arr
         /\ ret = FALSE
    ELSE /\ mem_rate' = Append(arr, now)
         /\ ret = TRUE

\* job_queue.py:78-109.  how is what happens to the call:
\*   "redis"          INCR (and EXPIRE for a new bucket) succeed
\*   "mem"            no client, or INCR raises before counting
\*   "expire_raises"  INCR creates the bucket, EXPIRE raises (line 95)
rate_limit_allow(limit, window_s, how, ret) ==
    LET bucket == WindowIndex(now, window_s)
        val    == r_rl[bucket][1] + 1
    IN
    IF REDIS_URL /\ how = "redis"
    THEN /\ r_rl' = [r_rl EXCEPT ![bucket] =
                        <<val, IF val = 1 THEN now + window_s + 2 ELSE @[2]>>]
         /\ ret = (val <= limit)
         /\ mem_rate' = mem_rate
    ELSE IF REDIS_URL /\ how = "expire_raises"
    THEN /\ r_rl' = [r_rl EXCEPT ![bucket] = <<val, -1>>]
         /\ rate_limit_mem(limit, window_s, ret)
    ELSE /\ r_rl' = r_rl
         /\ rate_limit_mem(limit, window_s, ret)

\* one call of the admission layer for the client key
RateLimitCall ==
    /\ rl_total < MaxCalls
    /\ \E how \in {"redis", "mem", "expire_raises"}, ret \in BOOLEAN :
        /\ (~REDIS_URL) => how = "mem"
        /\ how = "expire_raises" => r_rl[WindowIndex(now, rl_window)][1] = 0
        /\ how # "redis" /\ REDIS_URL => faults < MaxFaults
        /\ rate_limit_allow(rl_limit, rl_window, how, ret)
        /\ faults' = IF how # "redis" /\ REDIS_URL THEN faults + 1 ELSE faults
        /\ rl_last' = IF ret THEN "true" ELSE "false"
        /\ rl_hist' = Append(rl_hist, <<now, ret>>)
    /\ rl_calls' = rl_calls + 1
    /\ rl_total' = rl_total + 1
    /\ UNCHANGED <<REDIS_URL, nextId, r_jobs, r_audio, r_queue, mem_jobs,
                   mem_audio, mem_queue, pc, wjob, wloc, deqLog, opLog, used,
                   seen, now, rl_limit, rl_window, fnVars, written>>

\* a second passes; Redis drops the buckets whose TTL has run out
Tick ==
    /\ now < MaxTime
    /\ now' = now + 1
    /\ r_rl' = [i \in DOMAIN r_rl |->
                  IF r_rl[i][2] # -1 /\ r_rl[i][2] <= now + 1
                  THEN <<0, -1>> ELSE r_rl[i]]
    /\ rl_calls' = IF WindowIndex(now + 1, rl_window)
                        = WindowIndex(now, rl_window)
                   THEN rl_calls ELSE 0
    /\ UNCHANGED <<pipeVars, rl_limit, rl_window, mem_rate, rl_last, rl_total,
                   rl_hist, fnVars, written>>

InitRL ==
    /\ REDIS_URL \in BOOLEAN
    /\ faults = 0
    /\ nextId = 1
    /\ r_jobs = [j \in Jobs |-> None]
    /\ r_audio = [j \in Jobs |-> None]
    /\ r_queue = <<>>
    /\ mem_jobs = [p \in Procs |-> [j \in Jobs |-> None]]
    /\ mem_audio = [p \in Procs |-> [j \in Jobs |-> None]]
    /\ mem_queue = [p \in Procs |-> <<>>]
    /\ pc = [w \in Workers |-> "poll"]
    /\ wjob = [w \in Workers |-> 0]
    /\ wloc = [w \in Workers |-> None]
    /\ deqLog = <<>>
    /\ opLog = [j \in Jobs |-> <<>>]
    /\ used = {}
    /\ seen = [j \in Jobs |-> "none"]
    /\ now = 0
    /\ rl_limit \in 1..MaxLimit
    /\ rl_window \in 1..MaxWindow
    /\ r_rl = [i \in 0..MaxTime |-> <<0, -1>>]
    /\ mem_rate = <<>>
    /\ rl_calls = 0
    /\ rl_last = "none"
    /\ rl_total = 0
    /\ rl_hist = <<>>
    /\ written = [j \in Jobs |-> -1]
    /\ InitDSIdle
    /\ InitAAIdle

NextRL ==
    \/ RateLimitCall
    \/ Tick

SpecRL == InitRL /\ [][NextRL]_vars

\* ------------------------------------------------------------------------
\* app.py: deterministic_scores over the hashes of two uploaded files
\* ------------------------------------------------------------------------
\* app.py:72  bytes.fromhex: two hexadecimal digits make one byte
fromhex(hex) == [i \in 1..(Len(hex) \div 2) |-> 16 * hex[2 * i - 1] + hex[2 * i]]

\* app.py:73-75  int.from_bytes(bs, "big", signed=False)
RECURSIVE from_bytes(_)
from_bytes(bs) ==
    IF bs = <<>> THEN 0
    ELSE 256 * from_bytes(SubSeq(bs, 1, Len(bs) - 1)) + bs[Len(bs)]

\* app.py:61-62
clamp100(n) == IF n < 0 THEN 0 ELSE IF n > 100 THEN 100 ELSE n

\* app.py:64-89.  int(scam * 0.65 + 35) and int(stress * 0.6 + 25) truncate
\* a non-negative value: the integer quotients below, for 0..100.
deterministic_scores(file_hash_hex) ==
    LET b       == fromhex(SubSeq(file_hash_hex, 1, 2 * HashLen))
        a       == from_bytes(SubSeq(b, 1, 4))
        c       == from_bytes(SubSeq(b, 5, 8))
        d       == from_bytes(SubSeq(b, 9, 12))
        scam0   == a % 101
        ai_prob == c % 101
        stress0 == d % 101
        scam    == IF ai_prob >= 75
                   THEN clamp100((65 * scam0 + 3500) \div 100) ELSE scam0
        stress  == IF scam >= 80
                   THEN clamp100((60 * stress0 + 2500) \div 100) ELSE stress0
    IN  [scam_score |-> scam, ai_probability |-> ai_prob,
         stress_level |-> stress]

\* the hexadecimal digests drawn: the digits of the low bytes of the three
\* words read and of a byte that is not read vary, the other digits are 0
Digests ==
    {[i \in 1..(2 * HashLen) |->
         IF i = 7 THEN x[1] ELSE IF i = 8 THEN x[2]
         ELSE IF i = 15 THEN x[3] ELSE IF i = 23 THEN x[4]
         ELSE IF i = 2 * HashLen THEN x[5] ELSE 0] :
        x \in {0, 6} \X {0, 5} \X {0, 5} \X {0, 5} \X {0, 1}}

\* app.py:163-166  the request for file i: hash, then scores
analyze(i) ==
    /\ ds_scores[i] = None
    /\ ds_scores' = [ds_scores EXCEPT ![i] = deterministic_scores(ds_hash[i])]
    /\ UNCHANGED <<pipeVars, rlVars, ds_hash, aa_in, aa_result, written>>

InitDS ==
    /\ REDIS_URL = FALSE
    /\ faults = 0
    /\ nextId = 1
    /\ r_jobs = [j \in Jobs |-> None]
    /\ r_audio = [j \in Jobs |-> None]
    /\ r_queue = <<>>
    /\ mem_jobs = [p \in Procs |-> [j \in Jobs |-> None]]
    /\ mem_audio = [p \in Procs |-> [j \in Jobs |-> None]]
    /\ mem_queue = [p \in Procs |-> <<>>]
    /\ pc = [w \in Workers |-> "poll"]
    /\ wjob = [w \in Workers |-> 0]
    /\ wloc = [w \in Workers |-> None]
    /\ deqLog = <<>>
    /\ opLog = [j \in Jobs |-> <<>>]
    /\ used = {}
    /\ seen = [j \in Jobs |-> "none"]
    /\ written = [j \in Jobs |-> -1]
    /\ InitRLIdle
    /\ ds_hash \in Digests \X Digests
    /\ ds_scores = <<None, None>>
    /\ InitAAIdle

NextDS == \E i \in 1..2 : analyze(i)

SpecDS == InitDS /\ [][NextDS]_vars

\* ------------------------------------------------------------------------
\* worker.py: the scoring tail of analyze_audio, on one sample
\* ------------------------------------------------------------------------
\* Scores are counted in hundredths of a point (7496 is 74.96), reported
\* scores in tenths (750 is 75.0), compression_hint in hundredths of one and
\* duration_s in hundredths of a second.

\* worker.py:35-40  _clamp(x) with the default bounds 0.0 and 100.0
_clamp(x) ==
    LET m == IF x > 10000 THEN 10000 ELSE x IN IF m < 0 THEN 0 ELSE m

\* worker.py:194-196  round(x, 1): the nearest tenth, a half going to the
\* even tenth
round1(x) ==
    LET q == x \div 10
        r == x % 10
    IN  IF r < 5 THEN q
        ELSE IF r > 5 THEN q + 1
        ELSE IF q % 2 = 0 THEN q ELSE q + 1

\* worker.py:175-190  the strings of the flags and of the three tiers
FlagSynthetic   == "Synthetic voice characteristics (prototype)"
FlagStress      == "High vocal stress detected (prototype)"
FlagCompression == "High compression / telephony-like signal (prototype)"
FlagShort       == "Very short sample (lower confidence)"
SummaryHigh ==
    "High-risk pattern detected (prototype). Verify identity via official channels."
SummaryModerate ==
    "Moderate risk indicators detected (prototype). Stay cautious and verify the caller."
SummaryLow ==
    "Low risk indicators in this sample (prototype), but remain cautious."

\* worker.py:175-205.  v holds the values lines 164-173 computed from the
\* features: compression_hint, ai_prob, stress_level, scam_score, and the
\* duration of the loaded sample.  The flags and the summary are chosen on
\* these values; the scores are rounded in the returned dict only.
analyze_audio(v) ==
    LET flags ==
            (IF v.ai_prob >= 7500 THEN <<FlagSynthetic>> ELSE <<>>)
            \o (IF v.stress_level >= 7000 THEN <<FlagStress>> ELSE <<>>)
            \o (IF v.compression_hint >= 72 THEN <<FlagCompression>> ELSE <<>>)
            \o (IF v.duration_s < 200 THEN <<FlagShort>> ELSE <<>>)
        summary ==
            IF v.scam_score >= 7500 THEN SummaryHigh
            ELSE IF v.scam_score >= 4500 THEN SummaryModerate
            ELSE SummaryLow
    IN  [summary       |-> summary,
         scam_score    |-> round1(_clamp(v.scam_score)),
         ai_voice_prob |-> round1(_clamp(v.ai_prob)),
         stress_level  |-> round1(_clamp(v.stress_level)),
         flags         |-> flags,
         voice_match   |-> "Unknown",
         meta          |-> [duration_s |-> v.duration_s, loader |-> "librosa"]]

\* a number of hundredths that ends in 5 is a float only when it is a
\* multiple of a quarter (74.25, 74.75): the other halves of a tenth have
\* no float and are not drawn
IsFloat(x) == x % 10 # 5 \/ x % 100 \in {25, 75}

\* the values within Spread hundredths of the threshold t
Near(t) == {x \in (t - Spread)..(t + Spread) : IsFloat(x)}

\* the samples drawn.  scam_score is 100 * sigmoid(7 * (0.62 * ai_prob / 100
\* + 0.28 * stress_level / 100 + 0.10 * compression_hint - 0.48)) (lines
\* 172-173), continuous in the features: it is near 75 with ai_prob near 75
\* when stress_level is about 50 and compression_hint about 0.32, and near
\* 45 when ai_prob is about 47, stress_level about 32 and compression_hint
\* about 0.70.
Samples ==
    {[scam_score |-> s, ai_prob |-> a, stress_level |-> 5000,
      compression_hint |-> 32, duration_s |-> 300] :
        s \in Near(7500), a \in Near(7500)}
    \cup
    {[scam_score |-> s, ai_prob |-> 4700, stress_level |-> 3200,
      compression_hint |-> 70, duration_s |-> 300] : s \in Near(4500)}

\* worker.py:251  result = analyze_audio(in_path)
AnalyzeAudio ==
    /\ aa_result = None
    /\ aa_result' = analyze_audio(aa_in)
    /\ UNCHANGED <<pipeVars, rlVars, ds_hash, ds_scores, aa_in, written>>

InitAA ==
    /\ REDIS_URL = FALSE
    /\ faults = 0
    /\ nextId = 1
    /\ r_jobs = [j \in Jobs |-> None]
    /\ r_audio = [j \in Jobs |-> None]
    /\ r_queue = <<>>
    /\ mem_jobs = [p \in Procs |-> [j \in Jobs |-> None]]
    /\ mem_audio = [p \in Procs |-> [j \in Jobs |-> None]]
    /\ mem_queue = [p \in Procs |-> <<>>]
    /\ pc = [w \in Workers |-> "poll"]
    /\ wjob = [w \in Workers |-> 0]
    /\ wloc = [w \in Workers |-> None]
    /\ deqLog = <<>>
    /\ opLog = [j \in Jobs |-> <<>>]
    /\ used = {}
    /\ seen = [j \in Jobs |-> "none"]
    /\ written = [j \in Jobs |-> -1]
    /\ InitRLIdle
    /\ InitDSIdle
    /\ aa_in \in Samples
    /\ aa_result = None

NextAA == AnalyzeAudio

SpecAA == InitAA /\ [][NextAA]_vars

\* ------------------------------------------------------------------------
\* Vocabulary of the properties
\* ------------------------------------------------------------------------
Terminal == {"done", "failed"}

\* a call served by rt can still be made in this state
Possible(rt) == IF REDIS_URL THEN rt = "redis" \/ faults < MaxFaults
                ELSE rt = "mem"

\* what a status query served by rt returns for job_id
QueryStatus(job_id, rt) == StatusOf(get_job(Api, job_id, rt))

\* every place a record of job_id can be stored in
Cells(job_id) ==
    {IF r_jobs[job_id] = None THEN None ELSE _json_loads(r_jobs[job_id])}
        \cup {mem_jobs[p][job_id] : p \in Procs}

Popped(job_id) == \E i \in 1..Len(deqLog) : deqLog[i] = job_id
Held(job_id)   == \E w \in Workers : wjob[w] = job_id
Did(job_id, ev) == \E i \in 1..Len(opLog[job_id]) : opLog[job_id][i] = ev
\* the worker popped job_id and is back at the poll of line 232
Completed(job_id) == Popped(job_id) /\ ~Held(job_id)
DelCount(job_id) ==
    Cardinality({i \in 1..Len(opLog[job_id]) :
                    opLog[job_id][i] \in {"del_redis", "del_mem"}})
Queued(job_id) ==
    \/ \E i \in 1..Len(r_queue) : r_queue[i] = job_id
    \/ \E p \in Procs : \E i \in 1..Len(mem_queue[p]) : mem_queue[p][i] = job_id

StatusStep(a, b) ==
    \/ a = b
    \/ <<a, b>> \in {<<"none", "queued">>, <<"queued", "processing">>,
                     <<"processing", "done">>, <<"processing", "failed">>}

\* ------------------------------------------------------------------------
\* C1 (specification SpecQ): the status a query can read only moves
\* none -> queued -> processing -> done or failed, and once a query has
\* returned done or failed every later query returns that same status.
\* ------------------------------------------------------------------------
C1_StatusMonotonic ==
    [][\A j \in Jobs : \A rt \in Backends :
          (REDIS_URL \/ rt = "mem") =>
             /\ StatusStep(QueryStatus(j, rt), QueryStatus(j, rt)')
             /\ (seen'[j] # "none" /\ Possible(rt)')
                    => QueryStatus(j, rt)' = seen'[j]]_vars

\* ------------------------------------------------------------------------
\* C2: the ids returned by dequeue are a prefix of the ids passed to
\* enqueue, in the same order.  Admission enqueues the ids 1, 2, ... in
\* this order.
\* ------------------------------------------------------------------------
C2_QueueFIFO == \A i \in 1..Len(deqLog) : deqLog[i] = i

\* ------------------------------------------------------------------------
\* C3 (specification SpecRL): within one window index the first rl_limit
\* calls return true and the call after them returns false, whichever
\* backend served each call.
\* ------------------------------------------------------------------------
C3_RateLimitWindow ==
    (rl_last # "none" /\ rl_calls >= 1) =>
        /\ (rl_calls <= rl_limit => rl_last = "true")
        /\ (rl_calls = rl_limit + 1 => rl_last = "false")

\* ------------------------------------------------------------------------
\* C4: a job whose blob was missing when the worker read it has a stored
\* record with status failed and error audio_missing_or_expired and no
\* result, is stored as done nowhere, was handled by no other step of the
\* worker, and is in no queue again.
\* ------------------------------------------------------------------------
C4_MissingAudioFails ==
    \A j \in Jobs : Did(j, "missing") =>
        /\ opLog[j] = <<"processing", "missing">>
        /\ \E c \in Cells(j) :
              /\ c # None
              /\ Decode(c).status = "failed"
              /\ Decode(c).error = "audio_missing_or_expired"
              /\ "result" \notin DOMAIN Decode(c)
        /\ \A c \in Cells(j) : StatusOf(c) # "done"
        /\ ~Queued(j)
        /\ Cardinality({i \in 1..Len(deqLog) : deqLog[i] = j}) = 1

C4_Witness == \E j \in Jobs : Did(j, "missing") /\ Completed(j)

C7_BackendNeverMixed == ~({"redis", "mem"} \subseteq used)

\* ------------------------------------------------------------------------
\* C8: a get_job made by the writer right after its set_job returns the
\* value written, through whichever backend the get is served.  The writer
\* of a step is the admission process when an id was handed out, else the
\* worker holding the id.
\* ------------------------------------------------------------------------
Writer(p, job_id) ==
    IF nextId' # nextId THEN p = Api ELSE p \in Workers /\ wjob[p] = job_id

C8_RoundTrip ==
    [][\A j \in Jobs, p \in Procs, rt \in Backends :
          (Writer(p, j) /\ Possible(rt)') =>
             /\ r_jobs'[j] # r_jobs[j]
                   => get_job(p, j, rt)' = _json_loads(r_jobs'[j])
             /\ mem_jobs'[p][j] # mem_jobs[p][j]
                   => get_job(p, j, rt)' = mem_jobs'[p][j]]_vars

\* ------------------------------------------------------------------------
\* C9, as stated: a popped id is in no queue again, and a job whose worker
\* crashed before the terminal write is stored as processing.
\* ------------------------------------------------------------------------
CrashedBeforeTerminal(w) ==
    /\ pc[w] = "crashed"
    /\ ~Did(wjob[w], "done") /\ ~Did(wjob[w], "failed")

C9_CrashLeavesProcessing ==
    /\ \A j \in Jobs : Popped(j) => ~Queued(j)
    /\ \A w \in Workers : CrashedBeforeTerminal(w) =>
          \E c \in Cells(wjob[w]) : StatusOf(c) = "processing"

\* C9, amended: a popped id is in no queue again, and a job whose worker
\* crashed before the terminal write is stored with a terminal status
\* nowhere: it is stored as processing when the crash came after the write
\* of line 237 and as processing nowhere when the crash came before it.
C9_CrashLosesJob ==
    /\ \A j \in Jobs : Popped(j) => ~Queued(j)
    /\ \A w \in Workers : CrashedBeforeTerminal(w) =>
          /\ \A c \in Cells(wjob[w]) : StatusOf(c) \notin Terminal
          /\ Did(wjob[w], "processing")
                <=> \E c \in Cells(wjob[w]) : StatusOf(c) = "processing"

C9_Witness ==
    \E w \in Workers :
        /\ CrashedBeforeTerminal(w)
        /\ Did(wjob[w], "processing")
        /\ \E v \in Workers : v # w /\ pc[v] = "poll" /\ r_queue = <<>>
                                /\ nextId > MaxJobs

\* ------------------------------------------------------------------------
\* C10: no id is returned by two dequeue calls, so no two workers hold the
\* same id.
\* ------------------------------------------------------------------------
C10_NoDoubleDelivery ==
    /\ \A i \in 1..Len(deqLog), k \in 1..Len(deqLog) :
          deqLog[i] = deqLog[k] => i = k
    /\ \A w \in Workers, v \in Workers :
          (w # v /\ wjob[w] # 0) => wjob[w] # wjob[v]

C10_Witness ==
    \E w \in Workers, v \in Workers :
        /\ w # v
        /\ pc[w] \in {"mark", "fetch", "done", "except", "finally"}
        /\ pc[v] \in {"mark", "fetch", "done", "except", "finally"}

\* ------------------------------------------------------------------------
\* C11 (specification SpecSolo): the worker loop is not ended by a job's
\* failure.  The worker is always at a position of the loop, and from any
\* position it comes back to the poll of line 232: after a missing blob,
\* after an exception of the analysis, after a Redis failure inside a
\* JobStore call and after the audit write raised.
\* ------------------------------------------------------------------------
LoopPositions == {"poll", "mark", "fetch", "done", "except", "finally"}

C11_WorkerKeepsPolling ==
    /\ [](pc[1] \in LoopPositions)
    /\ [](pc[1] # "poll" => <>(pc[1] = "poll"))

\* the first id popped failed and the worker went on with the next one
C11_Witness ==
    \E j \in Jobs, k \in Jobs :
        /\ deqLog = <<j, k>>
        /\ Did(j, "failed")
        /\ Did(k, "processing")

\* ------------------------------------------------------------------------
\* C12 (specification SpecRL): no smoothing across a window boundary.  When
\* the rl_limit calls of window index i were all made at its last instant
\* t - 1 and all admitted, the first rl_limit calls made at the first
\* instant t of window index i + 1 are all admitted, whichever backend
\* serves the calls.
\* ------------------------------------------------------------------------
CallsAt(t) ==
    Cardinality({i \in 1..Len(rl_hist) : rl_hist[i][1] = t})
AdmittedAt(t) ==
    Cardinality({i \in 1..Len(rl_hist) : rl_hist[i] = <<t, TRUE>>})
CallsInWindowOf(t) ==
    Cardinality({i \in 1..Len(rl_hist) :
        WindowIndex(rl_hist[i][1], rl_window) = WindowIndex(t, rl_window)})

C12_BoundaryBurst ==
    \A t \in 1..MaxTime :
        ( /\ WindowIndex(t, rl_window) = WindowIndex(t - 1, rl_window) + 1
          /\ CallsInWindowOf(t - 1) = rl_limit
          /\ AdmittedAt(t - 1) = rl_limit
          /\ CallsInWindowOf(t) = CallsAt(t)
          /\ CallsAt(t) <= rl_limit )
        => AdmittedAt(t) = CallsAt(t)

\* ------------------------------------------------------------------------
\* C13 (specification SpecTTL): a record whose latest set_job is more than
\* JobTTL clock values old is returned by no get_job: a status query
\* answers not-found, through whichever backend it is served.
\* ------------------------------------------------------------------------
C13_JobExpires ==
    \A j \in Jobs, rt \in Backends :
        ( /\ written[j] # -1
          /\ now - written[j] > JobTTL
          /\ (REDIS_URL \/ rt = "mem") )
        => get_job(Api, j, rt) = None

\* ------------------------------------------------------------------------
\* C14 (specification SpecLive): in every record stored in any place, the
\* field result is present exactly when the status is done and the field
\* error is present exactly when the status is failed; a failed record
\* carries no result.  A killed worker writes nothing more, so the stores
\* it leaves are those of a worker that has not taken its next step yet.
\* ------------------------------------------------------------------------
Has(c, field) == field \in DOMAIN Decode(c)

C14_ResultIffDone ==
    \A j \in Jobs : \A c \in Cells(j) :
        c # None =>
            /\ Has(c, "result") <=> StatusOf(c) = "done"
            /\ Has(c, "error") <=> StatusOf(c) = "failed"

\* a record stored as done, and one failed by an exception of the analysis
C14_Witness ==
    \E j \in Jobs, k \in Jobs :
        /\ \E c \in Cells(j) : StatusOf(c) = "done"
        /\ \E c \in Cells(k) :
              StatusOf(c) = "failed" /\ Decode(c).error \in Errors

\* ------------------------------------------------------------------------
\* C15 (specification SpecDS): deterministic_scores is deterministic and
\* injective: two files get the same scores exactly when they have the
\* same hash.
\* ------------------------------------------------------------------------
C15_DeterministicInjective ==
    (ds_scores[1] # None /\ ds_scores[2] # None) =>
        (ds_hash[1] = ds_hash[2] <=> ds_scores[1] = ds_scores[2])

\* ------------------------------------------------------------------------
\* C16: every stored record whose status is done or failed carries the
\* fields ms and finished_at.
\* ------------------------------------------------------------------------
C16_TerminalHasTiming ==
    \A j \in Jobs : \A c \in Cells(j) :
        StatusOf(c) \in Terminal => (Has(c, "ms") /\ Has(c, "finished_at"))

\* ------------------------------------------------------------------------
\* C17: on a successful analysis the worker writes the status done first,
\* then attempts the audit row, then deletes the blob.
\* ------------------------------------------------------------------------
\* every ev2 in the worker's history of job_id has an ev1 before it
Before(job_id, ev1, ev2) ==
    \A i \in 1..Len(opLog[job_id]) :
        opLog[job_id][i] = ev2 =>
            \E k \in 1..(i - 1) : opLog[job_id][k] = ev1

C17_DoneAuditDelete ==
    \A j \in Jobs :
        /\ Before(j, "done", "audit")
        /\ Did(j, "done") =>
              (Before(j, "audit", "del_redis") /\ Before(j, "audit", "del_mem"))

\* ------------------------------------------------------------------------
\* C18 (specification SpecSolo): whether the audit write returned or
\* raised, the job is never stored as failed, and the worker comes to have
\* stored it as done with the result of the analysis and to have deleted
\* the blob once.
\* ------------------------------------------------------------------------
\* the audit write of worker w, for the job it holds, ended as out
AuditOutcome(w, out) ==
    /\ wloc[w] # None
    /\ "audit" \in DOMAIN wloc[w]
    /\ wloc[w].audit = out

DoneStored(job_id) ==
    /\ \E c \in Cells(job_id) :
          StatusOf(c) = "done" /\ Decode(c).result = AResult
    /\ \A c \in Cells(job_id) : StatusOf(c) # "failed"

C18_AuditFailureSwallowed ==
    \A j \in Jobs, out \in {"audit_ok", "audit_raised"} :
        /\ []((wjob[1] = j /\ AuditOutcome(1, out)) =>
                 /\ pc[1] \in {"done", "finally"}
                 /\ \A c \in Cells(j) : StatusOf(c) # "failed")
        /\ []((wjob[1] = j /\ AuditOutcome(1, out)) =>
                 <>(Completed(j) /\ DoneStored(j) /\ DelCount(j) = 1))

\* the audit write raised, and the worker has stored the job as done
C18_Witness ==
    \E j \in Jobs :
        /\ wjob[1] = j
        /\ AuditOutcome(1, "audit_raised")
        /\ pc[1] = "finally"
        /\ DoneStored(j)

\* ------------------------------------------------------------------------
\* C19 (specification SpecLive, no worker is killed): every job a worker
\* has marked processing (line 237) comes to a terminal status: the worker
\* finishes with it, and a record of the job with status done or failed is
\* stored, in the backend that served the worker's write.
\* ------------------------------------------------------------------------
TerminalStored(job_id) ==
    \E c \in Cells(job_id) : StatusOf(c) \in Terminal

Provenance == {"ip", "filename", "bytes", "created_at"}

RedisCell(job_id) ==
    IF r_jobs[job_id] = None THEN None ELSE _json_loads(r_jobs[job_id])

KeepsProvenance(c, d) ==
    c # None =>
        /\ d # None
        /\ \A f \in Provenance :
              Has(c, f) => (Has(d, f) /\ Decode(d)[f] = Decode(c)[f])

C20_ProvenanceKept ==
    [][\A j \in Jobs :
          /\ KeepsProvenance(RedisCell(j), RedisCell(j)')
          /\ \A p \in Procs :
                KeepsProvenance(mem_jobs[p][j], mem_jobs'[p][j])]_vars

\* ------------------------------------------------------------------------
\* C21 (specification SpecAA): in every result of analyze_audio the summary
\* agrees with the scam_score reported in that result (the high-risk string
\* exactly when it is at least 75.0, the moderate string exactly when it is
\* at least 45.0 and below 75.0, the low string otherwise), and the
\* synthetic-voice flag is present exactly when the reported ai_voice_prob
\* is at least 75.0.
\* ------------------------------------------------------------------------
HasFlag(r, flag) == \E i \in 1..Len(r.flags) : r.flags[i] = flag

C21_SummaryAgreesWithReported ==
    aa_result # None =>
        /\ aa_result.summary = SummaryHigh <=> aa_result.scam_score >= 750
        /\ aa_result.summary = SummaryModerate
              <=> (aa_result.scam_score >= 450 /\ aa_result.scam_score < 750)
        /\ aa_result.summary = SummaryLow <=> aa_result.scam_score < 450
        /\ HasFlag(aa_result, FlagSynthetic) <=> aa_result.ai_voice_prob >= 750

\* ------------------------------------------------------------------------
\* C22 (specification SpecLive, no worker is killed and the workers poll
\* forever): every job id passed to enqueue is eventually returned by a
\* dequeue, the ids whose push fell back to the in-memory list included.
\* Admission passes the ids below nextId to enqueue.
\* ------------------------------------------------------------------------
Enqueued(job_id) == job_id < nextId

C22_EnqueuedEventuallyDequeued ==
    \A j \in Jobs : [](Enqueued(j) => <>Popped(j))

\* ------------------------------------------------------------------------
\* C23: once the record of an admitted job is not-found for a worker, that
\* is once every get_job the worker can make for the id returns None, no
\* step makes a record of the id appear: popping the id and working on it
\* leaves every such get_job returning None.
\* ------------------------------------------------------------------------
NotFoundBy(p, job_id) ==
    \A rt \in Backends :
        (REDIS_URL \/ rt = "mem") => get_job(p, job_id, rt) = None

C23_NotFoundStaysNotFound ==
    [][\A j \in Jobs, w \in Workers :
          (Enqueued(j) /\ NotFoundBy(w, j)) => NotFoundBy(w, j)']_vars

====
